---- MODULE Spec2Model ----
(***************************************************************************)
(* Model of financerag/tasks/BaseTask.py: the staged pipeline of BaseTask  *)
(* (retrieve, rerank, generate and the three stored stage results), the    *)
(* per-query fusion loop of hybrid_retrieve_rerank, the cache of           *)
(* keyword_extraction_expansion, save_results and evaluate.                *)
(*                                                                         *)
(*   Spec          retrieve, rerank and generate with every kind of input  *)
(*   SpecHybrid    one call of hybrid_retrieve_rerank, stage by stage      *)
(*   SpecKeywords  repeated calls of keyword_extraction_expansion          *)
(*   SpecOutput    stage calls that return, and save_results               *)
(*   SpecEvaluate  retrieve and rerank calls that return, and evaluate     *)
(***************************************************************************)
EXTENDS Integers, Sequences, FiniteSets, TLC

VARIABLES
    loaded,            \* corpus and queries are both not None
    retrieve_results,  \* self.retrieve_results: None or Some(ranking)
    rerank_results,    \* self.rerank_results:   None or Some(ranking)
    generate_results,  \* self.generate_results: None or Some(answers)
    last,              \* what the most recent stage call did (observation)
    kw_cache,          \* lru_cache of keyword_extraction_expansion
    hpc,               \* position in hybrid_retrieve_rerank
    hargs,             \* its arguments top_k and query_ids
    hi,                \* position of its loop in self.queries.items()
    batch,             \* its local `results`: query id -> ordered mapping
    retrieved_docs_1,  \* its local DataFrame of the full-text stage
    retrieved_docs,    \* its local DataFrame of the dense stage / the fusion
    hobs,              \* what the current iteration did (observation)
    kobs,              \* what the calls of keyword_extraction_expansion did
    recent_stage,      \* the ranking stage that stored its result last (history)
    files,             \* the files of output_dir
    eobs               \* arguments and result of the most recent call of
                       \* save_results or evaluate (observation)

svars == <<recent_stage, files, eobs>>

pvars == <<loaded, retrieve_results, rerank_results, generate_results, last, svars>>

hvars == <<kw_cache, hpc, hargs, hi, batch, retrieved_docs_1, retrieved_docs, hobs, kobs>>

vars == <<pvars, hvars>>

stores == <<retrieve_results, rerank_results, generate_results>>

-----------------------------------------------------------------------------
(* Python's Optional: None is the empty tuple, a value v is <<v>>.         *)

None == << >>

Some(v) == <<v>>

-----------------------------------------------------------------------------
(* The loaded data set: self.queries (id -> text) and the ids of           *)
(* self.corpus.                                                            *)

Queries == [q1 |-> "text1", q2 |-> "text2"]

Corpus == {"d1", "d2", "q1"}

(* Rankings the Retrieval / Reranker collaborators can return, or a caller *)
(* can pass explicitly: query id -> ordered mapping (a sequence of         *)
(* <<doc id, score>> with distinct doc ids, as a Python dict iterates).    *)
RankA == [q1 |-> << <<"d1", 1>>, <<"d2", 2>> >>, q2 |-> << <<"d2", 2>> >>]

RankB == [q1 |-> << <<"d2", 1>>, <<"d1", 1>> >>, q2 |-> << >>]

RankC == [q1 |-> << <<"q1", 2>>, <<"d1", 1>> >>]

Rankings == {RankA, RankB, RankC}

(* Outputs the Generator collaborator can return: query id -> text.        *)
Answers == {[q1 |-> "a1", q2 |-> "a2"], [q1 |-> "b1"]}

-----------------------------------------------------------------------------
(* The observation record of a stage call.                                 *)
(*   op        the stage called                                            *)
(*   typed     the collaborator argument is of the expected class          *)
(*   explicit  the caller passed results explicitly                        *)
(*   outcome   "ok" or the exception the call raised                       *)
(*   resolved  a stored stage result was read to stand in for results      *)
(*   built     prepare_generation_inputs was called                        *)
(*   builder   the prepare_messages it was called with                     *)
(*   invoked   the collaborator's method was called                        *)
(*   input     the results handed to the collaborator / message builder    *)
(*   messages  the messages_dict handed to the generator                   *)
(*   output    what the collaborator returned                              *)

NoCall ==
    [op |-> "none", typed |-> TRUE, explicit |-> FALSE, outcome |-> "ok",
     resolved |-> FALSE, built |-> FALSE, builder |-> "", invoked |-> FALSE,
     input |-> None, messages |-> None, output |-> None]

Call(op, typed, results) ==
    [NoCall EXCEPT !.op = op, !.typed = typed, !.explicit = (results # None)]

Raised(call, exception) == [call EXCEPT !.outcome = exception]

(* __init__: the three stage results are None and load_data() has set      *)
(* self.queries and self.corpus.                                           *)
InitTask ==
    /\ loaded = TRUE
    /\ retrieve_results = None
    /\ rerank_results = None
    /\ generate_results = None
    /\ last = NoCall

-----------------------------------------------------------------------------
(* generate: the default message builder and prepare_generation_inputs.    *)

(* Insertion order of the query ids of a ranking (dict iteration order).   *)
QueryOrder == <<"q1", "q2">>

RECURSIVE KeysFrom(_, _)
KeysFrom(r, i) ==
    IF i > Len(QueryOrder) THEN << >>
    ELSE IF QueryOrder[i] \in DOMAIN r
         THEN <<QueryOrder[i]>> \o KeysFrom(r, i + 1)
         ELSE KeysFrom(r, i + 1)

Keys(r) == KeysFrom(r, 1)

(* self.corpus[doc_id]: the stored document of an id.                      *)
Document(d) == [title |-> d, text |-> d]

(* max(documents, key=lambda x: x[1]): Python's max returns the first of   *)
(* the maximal elements.                                                   *)
RECURSIVE MaxFrom(_, _, _)
MaxFrom(documents, i, best) ==
    IF i > Len(documents) THEN best
    ELSE MaxFrom(documents, i + 1,
                 IF documents[i][2] > documents[best][2] THEN i ELSE best)

(* default_messages(query, documents): a prompt on the highest scored      *)
(* document; max() of an empty list raises ValueError.                     *)
default_messages(query, documents) ==
    IF Len(documents) = 0
    THEN [err |-> "ValueError_EmptyMax", messages |-> None]
    ELSE [err |-> "",
          messages |-> Some([document |-> documents[MaxFrom(documents, 1, 1)][1],
                             question |-> query])]

(* A caller-supplied prepare_messages: it returns a prompt of its own or   *)
(* raises.                                                                 *)
custom_messages(builder, query, documents) ==
    IF builder = "custom_raises"
    THEN [err |-> "BuilderError", messages |-> None]
    ELSE [err |-> "", messages |-> Some([custom |-> query, n |-> Len(documents)])]

Builders == {"default", "custom", "custom_raises"}

prepare_messages(builder, query, documents) ==
    IF builder = "default" THEN default_messages(query, documents)
    ELSE custom_messages(builder, query, documents)

(* One iteration of the loop of prepare_generation_inputs for query_id.    *)
PrepareOne(results, builder, query_id) ==
    IF query_id \notin DOMAIN Queries
    THEN [err |-> "KeyError", messages |-> None]
    ELSE IF \E j \in 1..Len(results[query_id]) : results[query_id][j][1] \notin Corpus
    THEN [err |-> "KeyError", messages |-> None]
    ELSE prepare_messages(builder, Queries[query_id],
             [j \in 1..Len(results[query_id]) |->
                 <<Document(results[query_id][j][1]), results[query_id][j][2]>>])

RECURSIVE PrepareLoop(_, _, _, _, _)
PrepareLoop(results, builder, keys, i, acc) ==
    IF i > Len(keys) THEN [err |-> "", messages_dict |-> acc]
    ELSE LET one == PrepareOne(results, builder, keys[i])
         IN IF one.err # ""
            THEN [err |-> one.err, messages_dict |-> << >>]
            ELSE PrepareLoop(results, builder, keys, i + 1,
                             Append(acc, <<keys[i], one.messages[1]>>))

(* prepare_generation_inputs(results, prepare_messages): the messages per  *)
(* query id, in the order of results, or the exception raised.             *)
prepare_generation_inputs(results, builder) ==
    IF ~loaded THEN [err |-> "ValueError_NotLoaded", messages_dict |-> << >>]
    ELSE PrepareLoop(results, builder, Keys(results), 1, << >>)

-----------------------------------------------------------------------------
(* The three stages.  isX: the collaborator is an instance of the expected *)
(* class.  results: the explicit results argument, None when omitted.      *)
(* ret: what the collaborator does when called, None when it raises and    *)
(* Some(v) when it returns v.                                              *)

(* Mutant: the class of the collaborator is never checked.                 *)
issubclass_unchecked(isExpected) == TRUE

(* issubclass(type(collaborator), ExpectedClass) *)
issubclass(isExpected) == isExpected

(* Mutant: the stored result is reset before the retriever is called, so a *)
(* retriever that raises leaves None behind.                               *)
retrieve_reset_first(isRetrieval, ret) ==
    LET call == Call("retrieve", isRetrieval, None) IN
    IF ~issubclass(isRetrieval) THEN
        /\ last' = Raised(call, "TypeError")
        /\ UNCHANGED <<loaded, stores, svars, hvars>>
    ELSE IF ~loaded THEN
        /\ last' = Raised(call, "ValueError_NotLoaded")
        /\ UNCHANGED <<loaded, stores, svars, hvars>>
    ELSE
        /\ retrieve_results' = ret
        /\ last' = IF ret = None
                   THEN Raised([call EXCEPT !.invoked = TRUE], "CollaboratorError")
                   ELSE [call EXCEPT !.invoked = TRUE, !.output = ret]
        /\ recent_stage' = "retrieve"
        /\ UNCHANGED <<loaded, rerank_results, generate_results, files, eobs, hvars>>

(* retrieve(retriever, top_k) *)
(* Mutant: a retrieve that returns also drops the stored rerank result.   *)
retrieve_invalidating(isRetrieval, ret) ==
    LET call == Call("retrieve", isRetrieval, None) IN
    IF issubclass(isRetrieval) /\ loaded /\ ret # None THEN
        /\ retrieve_results' = ret
        /\ rerank_results' = None
        /\ last' = [call EXCEPT !.invoked = TRUE, !.output = ret]
        /\ recent_stage' = "retrieve"
        /\ UNCHANGED <<loaded, generate_results, files, eobs, hvars>>
    ELSE
        /\ last' = Raised(call, "CollaboratorError")
        /\ UNCHANGED <<loaded, stores, svars, hvars>>

retrieve(isRetrieval, ret) ==
    LET call == Call("retrieve", isRetrieval, None) IN
    IF ~issubclass(isRetrieval) THEN
        /\ last' = Raised(call, "TypeError")
        /\ UNCHANGED <<loaded, stores, svars, hvars>>
    ELSE IF ~loaded THEN
        /\ last' = Raised(call, "ValueError_NotLoaded")
        /\ UNCHANGED <<loaded, stores, svars, hvars>>
    ELSE IF ret = None THEN
        /\ last' = Raised([call EXCEPT !.invoked = TRUE], "CollaboratorError")
        /\ UNCHANGED <<loaded, stores, svars, hvars>>
    ELSE
        /\ retrieve_results' = ret
        /\ last' = [call EXCEPT !.invoked = TRUE, !.output = ret]
        /\ recent_stage' = "retrieve"
        /\ UNCHANGED <<loaded, rerank_results, generate_results, files, eobs, hvars>>

(* Mutant: rerank prefers its own previous output to the retrieve result.  *)
RerankInput_own_output(results) ==
    IF results = None
    THEN (IF rerank_results # None THEN rerank_results ELSE retrieve_results)
    ELSE results

(* Mutant: a missing retrieve result is replaced by an empty ranking.      *)
RerankInput_default_empty(results) ==
    IF results = None
    THEN (IF retrieve_results = None THEN Some(<< >>) ELSE retrieve_results)
    ELSE results

(* rerank: `if results is None: ... results = self.retrieve_results`.      *)
RerankInput(results) ==
    IF results = None THEN retrieve_results ELSE results

(* rerank(reranker, results, top_k, batch_size) *)
rerank(isReranker, results, ret) ==
    LET call == Call("rerank", isReranker, results)
        read == [call EXCEPT !.resolved = (results = None)]
        sent == [read EXCEPT !.invoked = TRUE, !.input = RerankInput(results)]
    IN
    IF ~issubclass(isReranker) THEN
        /\ last' = Raised(call, "TypeError")
        /\ UNCHANGED <<loaded, stores, svars, hvars>>
    ELSE IF ~loaded THEN
        /\ last' = Raised(call, "ValueError_NotLoaded")
        /\ UNCHANGED <<loaded, stores, svars, hvars>>
    ELSE IF RerankInput(results) = None THEN
        /\ last' = Raised(read, "ValueError_NoInput")
        /\ UNCHANGED <<loaded, stores, svars, hvars>>
    ELSE IF ret = None THEN
        /\ last' = Raised(sent, "CollaboratorError")
        /\ UNCHANGED <<loaded, stores, svars, hvars>>
    ELSE
        /\ rerank_results' = ret
        /\ last' = [sent EXCEPT !.output = ret]
        /\ recent_stage' = "rerank"
        /\ UNCHANGED <<loaded, retrieve_results, generate_results, files, eobs, hvars>>

(* Mutant: missing stage results are replaced by an empty ranking.         *)
GenerateInput_default_empty(results) ==
    IF results = None
    THEN (IF rerank_results = None THEN Some(<< >>) ELSE retrieve_results)
    ELSE results

(* generate: `results = (self.rerank_results if self.rerank_results is     *)
(* None else self.retrieve_results)` when results is None.                 *)
GenerateInput(results) ==
    IF results = None
    THEN (IF rerank_results = None THEN rerank_results ELSE retrieve_results)
    ELSE results

(* generate(model, results, prepare_messages) *)
generate(isGenerator, results, builder, ret) ==
    LET call == Call("generate", isGenerator, results)
        read == [call EXCEPT !.resolved = (results = None)]
        input == GenerateInput(results)
        prep == prepare_generation_inputs(input[1], builder)
        made == [read EXCEPT !.built = TRUE, !.builder = builder, !.input = input]
        sent == [made EXCEPT !.invoked = TRUE, !.messages = Some(prep.messages_dict)]
    IN
    IF ~issubclass(isGenerator) THEN
        /\ last' = Raised(call, "TypeError")
        /\ UNCHANGED <<loaded, stores, svars, hvars>>
    ELSE IF input = None THEN
        /\ last' = Raised(read, "AssertionError_NoInput")
        /\ UNCHANGED <<loaded, stores, svars, hvars>>
    ELSE IF prep.err # "" THEN
        /\ last' = Raised(made, prep.err)
        /\ UNCHANGED <<loaded, stores, svars, hvars>>
    ELSE IF ret = None THEN
        /\ last' = Raised(sent, "CollaboratorError")
        /\ UNCHANGED <<loaded, stores, svars, hvars>>
    ELSE
        /\ generate_results' = ret
        /\ last' = [sent EXCEPT !.output = ret]
        /\ UNCHANGED <<loaded, retrieve_results, rerank_results, svars, hvars>>

-----------------------------------------------------------------------------
(* pandas DataFrames of candidate rows.  A frame is the set of its score   *)
(* columns and its rows; a row is a doc_id and one value per column of the *)
(* frame.  The other columns of the search table (find_id, title, text,    *)
(* vector) are never null and are left out.                                *)

(* A missing value (NaN) of a column. *)
NaN == -1

ScoreCols == {"score", "_score", "_relevance_score"}

(* pandas.DataFrame(): no columns, no rows. *)
EmptyFrame == [cols |-> {}, rows |-> << >>]

(* The score column a search result carries after .rerank(): one of the    *)
(* two raw labels, the canonical name, or none.                            *)
Labels == {"_relevance_score", "_score", "score", "none"}

LabelCols(label) == IF label = "none" THEN {} ELSE {label}

(* .to_pandas() of a search result: cands is the list of <<doc id, score>> *)
(* the search returned, label the score columns it carries.                *)
Frame(label, cands) ==
    [cols |-> LabelCols(label),
     rows |-> [i \in 1..Len(cands) |->
                  [doc_id |-> cands[i][1],
                   val |-> [c \in LabelCols(label) |-> cands[i][2]]]]]

(* df.empty *)
IsEmpty(df) == Len(df.rows) = 0

(* df.rename(columns={old: new}, inplace=True) *)
RenameCol(df, old, new) ==
    LET cols == (df.cols \ {old}) \cup {new} IN
    [cols |-> cols,
     rows |-> [i \in 1..Len(df.rows) |->
                  [doc_id |-> df.rows[i].doc_id,
                   val |-> [c \in cols |->
                               IF c = new THEN df.rows[i].val[old]
                               ELSE df.rows[i].val[c]]]]]

(* _rename_score_column(df, new_name): the frame afterwards, or the        *)
(* ValueError when no score column is found.                               *)
rename_score_column(df, new_name) ==
    IF new_name \in df.cols \/ Len(df.rows) = 0
    THEN [raised |-> FALSE, df |-> df]
    ELSE IF "_score" \in df.cols
    THEN [raised |-> FALSE, df |-> RenameCol(df, "_score", new_name)]
    ELSE IF "_relevance_score" \in df.cols
    THEN [raised |-> FALSE, df |-> RenameCol(df, "_relevance_score", new_name)]
    ELSE [raised |-> TRUE, df |-> df]

(* The rows of df over the columns cols: NaN where df has no such column.  *)
Reindex(df, cols) ==
    [i \in 1..Len(df.rows) |->
        [doc_id |-> df.rows[i].doc_id,
         val |-> [c \in cols |->
                     IF c \in df.cols THEN df.rows[i].val[c] ELSE NaN]]]

(* pandas.concat([a, b], ignore_index=True): the union of the columns, the *)
(* rows of a followed by those of b.                                       *)
concat(a, b) ==
    [cols |-> a.cols \cup b.cols,
     rows |-> Reindex(a, a.cols \cup b.cols) \o Reindex(b, a.cols \cup b.cols)]

(* df.drop_duplicates(subset=['doc_id'], keep='first', inplace=True): the  *)
(* first row of each doc_id is kept.                                       *)
RECURSIVE FirstRows(_, _)
FirstRows(rows, i) ==
    IF i > Len(rows) THEN << >>
    ELSE IF \A j \in 1..(i - 1) : rows[j].doc_id # rows[i].doc_id
         THEN <<rows[i]>> \o FirstRows(rows, i + 1)
         ELSE FirstRows(rows, i + 1)

drop_duplicates(df) == [cols |-> df.cols, rows |-> FirstRows(df.rows, 1)]

NoNaN(row) == \A c \in DOMAIN row.val : row.val[c] # NaN

(* df.dropna(inplace=True): drops every row with a NaN in any column.      *)
dropna(df) == [cols |-> df.cols, rows |-> SelectSeq(df.rows, NoNaN)]

(* The orders df.sort_values(by=by, ascending=False) can leave the rows    *)
(* in: the default sort (quicksort) is not stable, so rows of equal score  *)
(* come out in any order.                                                  *)
Orderings(rows, by) ==
    {p \in [1..Len(rows) -> 1..Len(rows)] :
        /\ \A i, j \in 1..Len(rows) : i # j => p[i] # p[j]
        /\ \A i \in 1..(Len(rows) - 1) :
              rows[p[i]].val[by] >= rows[p[i + 1]].val[by]}

(* The frames df.sort_values(by='score', ascending=False)                  *)
(* .reset_index(drop=True) can return; a missing column raises KeyError.   *)
sort_values(df, by) ==
    IF by \notin df.cols THEN {}
    ELSE {[cols |-> df.cols, rows |-> [i \in 1..Len(df.rows) |-> df.rows[p[i]]]] :
             p \in Orderings(df.rows, by)}

(* {doc_id: score for doc_id, score in zip(df['doc_id'], df['score'])}:    *)
(* a repeated key keeps its first position and takes the last value.       *)
RECURSIVE ToDict(_, _, _)
ToDict(rows, i, acc) ==
    IF i > Len(rows) THEN acc
    ELSE LET d == rows[i].doc_id
             v == rows[i].val["score"]
         IN IF \E j \in 1..Len(acc) : acc[j][1] = d
            THEN ToDict(rows, i + 1,
                        [j \in 1..Len(acc) |->
                            IF acc[j][1] = d THEN <<d, v>> ELSE acc[j]])
            ELSE ToDict(rows, i + 1, Append(acc, <<d, v>>))

-----------------------------------------------------------------------------
(* keyword_extraction_expansion and its lru_cache.                         *)

(* @lru_cache(maxsize=1000) *)
maxsize == 1000

(* The content the chat completion returns (seed=42), as a token sequence: *)
(* keywords and the separator ", ".                                        *)
Responses == {<<"k1", ", ", "k2">>}

(* response.split(sep): the runs of tokens between the separators.         *)
RECURSIVE SplitFrom(_, _, _, _, _)
SplitFrom(response, sep, i, run, acc) ==
    IF i > Len(response) THEN Append(acc, run)
    ELSE IF response[i] = sep
         THEN SplitFrom(response, sep, i + 1, << >>, Append(acc, run))
         ELSE SplitFrom(response, sep, i + 1, Append(run, response[i]), acc)

split(response, sep) == SplitFrom(response, sep, 1, << >>, << >>)

(* sep.join(keywords) *)
RECURSIVE JoinFrom(_, _, _)
JoinFrom(keywords, sep, i) ==
    IF i > Len(keywords) THEN << >>
    ELSE (IF i > 1 THEN <<sep>> ELSE << >>) \o keywords[i]
         \o JoinFrom(keywords, sep, i + 1)

join(sep, keywords) == JoinFrom(keywords, sep, 1)

(* The cache is the list of <<query, keywords>> from the least to the most *)
(* recently used.                                                          *)
Cached(cache, query) == \E j \in 1..Len(cache) : cache[j][1] = query

CacheIndex(cache, query) == CHOOSE j \in 1..Len(cache) : cache[j][1] = query

Without(cache, k) == [j \in 1..(Len(cache) - 1) |-> IF j < k THEN cache[j] ELSE cache[j + 1]]

(* keyword_extraction_expansion(query): resp is what the chat completion   *)
(* does when called, None when it raises.  A hit returns the stored list   *)
(* without a call; a miss calls, and stores the list only when the call    *)
(* returned, evicting the least recently used entry of a full cache.       *)
keyword_extraction_expansion_uncached(cache, query, resp) ==
    IF resp = None
    THEN [raised |-> TRUE, invoked |-> TRUE, keywords |-> << >>, cache |-> cache]
    ELSE [raised |-> FALSE, invoked |-> TRUE, keywords |-> split(resp[1], ", "),
          cache |-> cache]

(* Mutant: a call that raised is stored as an empty list. *)
keyword_extraction_expansion_caches_failure(cache, query, resp) ==
    IF Cached(cache, query)
    THEN [raised |-> FALSE, invoked |-> FALSE,
          keywords |-> cache[CacheIndex(cache, query)][2], cache |-> cache]
    ELSE IF resp = None
    THEN [raised |-> TRUE, invoked |-> TRUE, keywords |-> << >>,
          cache |-> Append(cache, <<query, << >> >>)]
    ELSE [raised |-> FALSE, invoked |-> TRUE, keywords |-> split(resp[1], ", "),
          cache |-> Append(cache, <<query, split(resp[1], ", ")>>)]

keyword_extraction_expansion(cache, query, resp) ==
    IF Cached(cache, query)
    THEN LET k == CacheIndex(cache, query) IN
         [raised |-> FALSE, invoked |-> FALSE, keywords |-> cache[k][2],
          cache |-> Append(Without(cache, k), cache[k])]
    ELSE IF resp = None
    THEN [raised |-> TRUE, invoked |-> TRUE, keywords |-> << >>, cache |-> cache]
    ELSE LET keywords == split(resp[1], ", ")
             room == IF Len(cache) >= maxsize THEN Without(cache, 1) ELSE cache
         IN [raised |-> FALSE, invoked |-> TRUE, keywords |-> keywords,
             cache |-> Append(room, <<query, keywords>>)]

(* The observation of the calls of keyword_extraction_expansion.           *)
(*   query, raised, invoked, keywords   the most recent call and its result *)
(*   calls   query text -> number of calls of the chat completion for it   *)
(*   first   query text -> the list the first call that returned gave      *)
QueryTexts == {Queries[q] : q \in DOMAIN Queries}

NoExpansion ==
    [query |-> "", raised |-> FALSE, invoked |-> FALSE, keywords |-> << >>,
     calls |-> [t \in QueryTexts |-> 0], first |-> [t \in QueryTexts |-> None]]

Expanded(o, query, kw) ==
    [query |-> query, raised |-> kw.raised, invoked |-> kw.invoked,
     keywords |-> kw.keywords,
     calls |-> [o.calls EXCEPT ![query] = IF kw.invoked THEN @ + 1 ELSE @],
     first |-> [o.first EXCEPT ![query] =
                   IF @ = None /\ ~kw.raised THEN Some(kw.keywords) ELSE @]]

(* Most calls of the chat completion per query text in a behaviour of      *)
(* SpecKeywords.                                                           *)
MaxInvocations == 2

(* What the chat completion can return to a direct call: the content above *)
(* or a content without a separator.                                       *)
KeywordResponses == Responses \cup {<<"k3">>}

(* A call self.keyword_extraction_expansion(query), as at line 230.        *)
ExpandCall ==
    \E query \in QueryTexts :
    \E resp \in IF Cached(kw_cache, query) THEN {None}
                 ELSE {None} \cup {Some(r) : r \in KeywordResponses} :
        LET kw == keyword_extraction_expansion(kw_cache, query, resp) IN
        /\ Cached(kw_cache, query) \/ kobs.calls[query] < MaxInvocations
        /\ kw_cache' = kw.cache
        /\ kobs' = Expanded(kobs, query, kw)
        /\ UNCHANGED <<hpc, hargs, hi, batch, retrieved_docs_1, retrieved_docs, hobs, pvars>>

-----------------------------------------------------------------------------
(* hybrid_retrieve_rerank(top_k, query_ids).                               *)

(* Largest top_k a caller passes, and the scores a candidate can carry.    *)
MaxTopK == 3

MaxScore == 2

DocIds == {"d1", "d2"}

Scores == 1..MaxScore

(* The most rows a search with .limit(top_k) returns.  top_k is passed on  *)
(* unchecked; what LanceDB does with a limit that is not positive is its   *)
(* own affair: the search raises, or returns rows, here one at most.       *)
RowLimit(top_k) == IF top_k > 0 THEN top_k ELSE 1

(* The candidate lists a search limited to top_k rows can return.          *)
CandLists(top_k) ==
    UNION {[1..n -> DocIds \X Scores] : n \in 0..RowLimit(top_k)}

(* What a .search(...).rerank(...).limit(top_k).to_pandas() chain does:    *)
(* None when it raises, Some([label, cands]) when it returns rows cands    *)
(* whose score columns are those of label.                                 *)
SearchOutcomes(top_k) ==
    {None} \cup {Some([label |-> l, cands |-> c]) : l \in Labels, c \in CandLists(top_k)}

OptResponses == {None} \cup {Some(r) : r \in Responses}

(* query_ids: None, or a collection of query ids. *)
QueryIdArgs ==
    {None, Some({}), Some({"q1"}), Some({"q2"}), Some({"q1", "q2"}), Some({"q9"})}

(* The calls explored: batches of every query selection with top_k = 1,    *)
(* calls for the single query q2 with every larger top_k, and calls for    *)
(* the single query q1 with a top_k that is not positive.                  *)
CallArgs ==
    {[top_k |-> 1, query_ids |-> ids] : ids \in QueryIdArgs}
    \cup {[top_k |-> k, query_ids |-> Some({"q2"})] : k \in 2..MaxTopK}
    \cup {[top_k |-> k, query_ids |-> Some({"q1"})] : k \in (-1)..0}

Skipped_inverted(query_ids, q_id) ==
    /\ query_ids # None
    /\ query_ids[1] # {}
    /\ q_id \in query_ids[1]

(* `if query_ids and q_id not in query_ids: continue` *)
Skipped(query_ids, q_id) ==
    /\ query_ids # None
    /\ query_ids[1] # {}
    /\ q_id \notin query_ids[1]

NoIteration ==
    [q |-> "", lex |-> "none", lex_in |-> None, kw_invoked |-> FALSE,
     query_kw |-> << >>, dense |-> "none", dense_in |-> None, exception |-> ""]

InitHybrid ==
    /\ kw_cache = << >>
    /\ kobs = NoExpansion
    /\ hpc = "idle"
    /\ hargs = [top_k |-> 0, query_ids |-> None]
    /\ hi = 0
    /\ batch = << >>
    /\ retrieved_docs_1 = EmptyFrame
    /\ retrieved_docs = EmptyFrame
    /\ hobs = NoIteration

(* Entry: `results = {}` and the start of the loop (lines 213-222).        *)
HybridCall ==
    /\ hpc = "idle"
    /\ hargs' \in CallArgs
    /\ hi' = 1
    /\ batch' = << >>
    /\ hpc' = "head"
    /\ UNCHANGED <<kw_cache, retrieved_docs_1, retrieved_docs, hobs, kobs, pvars>>

(* Lines 223-224: a query outside query_ids is passed over.                *)
SkipQuery ==
    /\ hpc = "head"
    /\ hi <= Len(QueryOrder)
    /\ Skipped(hargs.query_ids, QueryOrder[hi])
    /\ hi' = hi + 1
    /\ UNCHANGED <<kw_cache, hpc, hargs, batch, retrieved_docs_1, retrieved_docs, hobs, kobs, pvars>>

(* Step 1 (lines 226-242): keyword expansion, full-text search, rename of  *)
(* the score column; every exception is caught and logged.  The frame is   *)
(* assigned before the rename, so a rename that raises leaves it in        *)
(* retrieved_docs_1.                                                       *)
full_text_stage(cache, query, resp, fts) ==
    LET kw == keyword_extraction_expansion(cache, query, resp)
        df == Frame(fts[1].label, fts[1].cands)
        rn == rename_score_column(df, "score")
    IN IF kw.raised
       THEN [lex |-> "expansion_failed", docs_1 |-> EmptyFrame, kw |-> kw]
       ELSE IF fts = None
       THEN [lex |-> "search_failed", docs_1 |-> EmptyFrame, kw |-> kw]
       ELSE IF rn.raised
       THEN [lex |-> "rename_failed", docs_1 |-> df, kw |-> kw]
       ELSE [lex |-> "ok", docs_1 |-> rn.df, kw |-> kw]

LexicalStage ==
    /\ hpc = "head"
    /\ hi <= Len(QueryOrder)
    /\ ~Skipped(hargs.query_ids, QueryOrder[hi])
    /\ \E resp \in OptResponses :
       \E fts \in IF keyword_extraction_expansion(kw_cache, Queries[QueryOrder[hi]], resp).raised
                  THEN {None} ELSE SearchOutcomes(hargs.top_k) :
          LET st == full_text_stage(kw_cache, Queries[QueryOrder[hi]], resp, fts) IN
          /\ retrieved_docs_1' = st.docs_1
          /\ kw_cache' = st.kw.cache
          /\ kobs' = Expanded(kobs, Queries[QueryOrder[hi]], st.kw)
          /\ hobs' = [NoIteration EXCEPT
                        !.q = QueryOrder[hi],
                        !.lex = st.lex,
                        !.lex_in = IF st.lex \in {"ok", "rename_failed"} THEN fts ELSE None,
                        !.kw_invoked = st.kw.invoked,
                        !.query_kw = join("; ", st.kw.keywords)]
    /\ retrieved_docs' = EmptyFrame   \* not read before the dense stage assigns it
    /\ hpc' = "dense"
    /\ UNCHANGED <<hargs, hi, batch, pvars>>

(* Step 2 (lines 245-266): hybrid search, vector search when it raises,    *)
(* and the empty entry when that raises too.                               *)
dense_stage_fallback_unscored(hyb, vec) ==
    IF hyb # None THEN [dense |-> "hybrid", found |-> hyb]
    ELSE IF vec # None
    THEN [dense |-> "vector",
          found |-> Some([label |-> "none", cands |-> vec[1].cands])]
    ELSE [dense |-> "failed", found |-> None]

dense_stage_failure_as_no_rows(hyb, vec) ==
    IF hyb # None THEN [dense |-> "hybrid", found |-> hyb]
    ELSE IF vec # None THEN [dense |-> "vector", found |-> vec]
    ELSE [dense |-> "vector", found |-> Some([label |-> "score", cands |-> << >>])]

dense_stage(hyb, vec) ==
    IF hyb # None THEN [dense |-> "hybrid", found |-> hyb]
    ELSE IF vec # None THEN [dense |-> "vector", found |-> vec]
    ELSE [dense |-> "failed", found |-> None]

DenseStage ==
    /\ hpc = "dense"
    /\ \E hyb \in SearchOutcomes(hargs.top_k) :
       \E vec \in IF hyb = None THEN SearchOutcomes(hargs.top_k) ELSE {None} :
          LET st == dense_stage(hyb, vec) IN
          /\ hobs' = [hobs EXCEPT !.dense = st.dense,
                                   !.dense_in = IF hyb # None THEN hyb ELSE vec]
          /\ IF st.dense = "failed"
             THEN /\ batch' = [x \in DOMAIN batch \cup {hobs.q} |->
                                 IF x = hobs.q THEN << >> ELSE batch[x]]
                  /\ hi' = hi + 1
                  /\ hpc' = "head"
                  /\ UNCHANGED retrieved_docs
             ELSE /\ retrieved_docs' = Frame(st.found[1].label, st.found[1].cands)
                  /\ hpc' = "fuse"
                  /\ UNCHANGED <<batch, hi>>
    /\ UNCHANGED <<kw_cache, kobs, hargs, retrieved_docs_1, pvars>>

(* Lines 268-271: the full-text rows go first, then the first row of each  *)
(* doc_id is kept.                                                         *)
combine(docs_1, docs) ==
    IF ~IsEmpty(docs_1) THEN drop_duplicates(concat(docs_1, docs)) ELSE docs

(* Steps 3 and 4 (lines 268-279): fusion, dropna, rename, sort and the     *)
(* entry of the query; the ValueError of the rename and the KeyError of    *)
(* the sort are not caught and end the call.                               *)
Fuse ==
    /\ hpc = "fuse"
    /\ LET clean == dropna(combine(retrieved_docs_1, retrieved_docs))
           rn == rename_score_column(clean, "score")
       IN IF rn.raised
          THEN /\ hpc' = "raised"
               /\ hobs' = [hobs EXCEPT !.exception = "ValueError"]
               /\ retrieved_docs' = clean
               /\ UNCHANGED <<batch, hi>>
          ELSE IF sort_values(rn.df, "score") = {}
          THEN /\ hpc' = "raised"
               /\ hobs' = [hobs EXCEPT !.exception = "KeyError"]
               /\ retrieved_docs' = rn.df
               /\ UNCHANGED <<batch, hi>>
          ELSE \E sorted \in sort_values(rn.df, "score") :
               /\ retrieved_docs' = sorted
               /\ batch' = [x \in DOMAIN batch \cup {hobs.q} |->
                              IF x = hobs.q THEN ToDict(sorted.rows, 1, << >>)
                              ELSE batch[x]]
               /\ hi' = hi + 1
               /\ hpc' = "head"
               /\ UNCHANGED hobs
    /\ UNCHANGED <<kw_cache, kobs, hargs, retrieved_docs_1, pvars>>

(* Line 281: `return results`. *)
HybridReturn ==
    /\ hpc = "head"
    /\ hi > Len(QueryOrder)
    /\ hpc' = "returned"
    /\ UNCHANGED <<kw_cache, kobs, hargs, hi, batch, retrieved_docs_1, retrieved_docs, hobs, pvars>>

-----------------------------------------------------------------------------
(* No stage has stored a ranking, output_dir holds no file and evaluate    *)
(* was not called.                                                         *)
NoFiles == [results |-> None, csv |-> None, output |-> None]

NoEvaluation == [op |-> "none"]

InitOutput ==
    /\ recent_stage = "none"
    /\ files = NoFiles
    /\ eobs = NoEvaluation

-----------------------------------------------------------------------------
(* save_results(top_k, output_dir).                                        *)

Min(a, b) == IF a <= b THEN a ELSE b

Max(a, b) == IF a >= b THEN a ELSE b

(* Python's s[:k]. *)
Slice(s, k) ==
    IF k >= 0 THEN SubSeq(s, 1, Min(k, Len(s)))
    ELSE SubSeq(s, 1, Max(Len(s) + k, 0))

(* sorted(doc_scores.items(), key=lambda item: item[1], reverse=True): the *)
(* sort is stable, items of equal score keep their order.                  *)
RECURSIVE SortedFrom(_, _, _)
SortedFrom(items, i, acc) ==
    IF i > Len(items) THEN acc
    ELSE LET k == Cardinality({j \in 1..Len(acc) : acc[j][2] >= items[i][2]})
         IN SortedFrom(items, i + 1,
                       SubSeq(acc, 1, k) \o <<items[i]>> \o SubSeq(acc, k + 1, Len(acc)))

(* Mutant: a sort that puts the later of two items of equal score first. *)
sorted_ties_reversed(items) ==
    SortedFrom([j \in 1..Len(items) |-> items[Len(items) + 1 - j]], 1, << >>)

sorted(items) == SortedFrom(items, 1, << >>)

(* Lines 565-569: one line {query_id, corpus_id, score} per stored pair.   *)
RECURSIVE ResultLines(_, _, _)
ResultLines(final, keys, i) ==
    IF i > Len(keys) THEN << >>
    ELSE [j \in 1..Len(final[keys[i]]) |->
             <<keys[i], final[keys[i]][j][1], final[keys[i]][j][2]>>]
         \o ResultLines(final, keys, i + 1)

(* Lines 570-584: the header and, per query, the doc ids of the top_k      *)
(* highest scores.                                                         *)
RECURSIVE CsvRows(_, _, _, _)
CsvRows(final, keys, i, top_k) ==
    IF i > Len(keys) THEN << >>
    ELSE LET sorted_docs == Slice(sorted(final[keys[i]]), top_k)
         IN [j \in 1..Len(sorted_docs) |-> <<keys[i], sorted_docs[j][1]>>]
            \o CsvRows(final, keys, i + 1, top_k)

(* Lines 589-597: one line {query_id, answer} per generated answer.        *)
AnswerLines(answers) ==
    [j \in 1..Len(Keys(answers)) |-> <<Keys(answers)[j], answers[Keys(answers)[j]]>>]

(* Mutant: the result of the stage that stored last. *)
final_result_most_recent ==
    IF recent_stage = "rerank" THEN rerank_results ELSE retrieve_results

(* Lines 557-561. *)
final_result ==
    IF rerank_results # None THEN rerank_results ELSE retrieve_results

(* Largest top_k a caller of save_results passes. *)
MaxSaveTopK == 2

save_results(top_k, output_dir) ==
    /\ last' = [NoCall EXCEPT !.op = "save_results"]
    /\ IF output_dir = None
       THEN /\ eobs' = [op |-> "save_results", top_k |-> top_k,
                        output_dir |-> output_dir, final |-> None]
            /\ UNCHANGED files
       ELSE LET final == final_result IN
            /\ eobs' = [op |-> "save_results", top_k |-> top_k,
                        output_dir |-> output_dir, final |-> final]
            /\ files' =
                 [results |-> IF final # None
                              THEN Some(ResultLines(final[1], Keys(final[1]), 1))
                              ELSE files.results,
                  csv |-> IF final # None
                          THEN Some(<< <<"query_id", "corpus_id">> >>
                                    \o CsvRows(final[1], Keys(final[1]), 1, top_k))
                          ELSE files.csv,
                  output |-> IF generate_results # None
                             THEN Some(AnswerLines(generate_results[1]))
                             ELSE files.output]
    /\ UNCHANGED <<loaded, stores, recent_stage, hvars>>

-----------------------------------------------------------------------------
(* evaluate(qrels, results, k_values, ignore_identical_ids).               *)

(* Relevance judgements a caller passes: query id -> (doc id, relevance).  *)
QrelsAll == [q1 |-> << <<"d1", 1>> >>, q2 |-> << <<"d2", 1>> >>]

QrelsOne == [q1 |-> << <<"d1", 1>> >>]

QrelsOther == [q9 |-> << <<"d1", 1>> >>]

Qrels == {QrelsAll, QrelsOne, QrelsOther}

KValues == {<< >>, <<1, 2>>}

(* Lines 610-619: results[qid].pop(pid) for pid == qid, on the mappings of *)
(* the argument itself.                                                    *)
remove_identical_none(results) == results

remove_identical(results) ==
    [qid \in DOMAIN results |->
        LET other(item) == item[1] # qid IN SelectSeq(results[qid], other)]

(* Line 622. *)
filtered_results(qrels, results) ==
    [qid \in DOMAIN results \cap DOMAIN qrels |-> results[qid]]

(* round(x, 5): metric values are integers in units of 10^-5.              *)
Digits == 5

Unit == 10 ^ Digits

(* The values pytrec_eval can report for a query: 0.0 and 1.0.             *)
ScoreVals == {0, Unit}

(* RelevanceEvaluator(qrels, measures).evaluate(run) scores the queries of *)
(* the run that have judgements.                                           *)
Scored(qrels, run) == DOMAIN run \cap DOMAIN qrels

(* Lines 649-654: the sum of the values of the scored queries.             *)
RECURSIVE Total(_, _)
Total(scores, qids) ==
    IF qids = {} THEN 0
    ELSE LET qid == CHOOSE x \in qids : TRUE
         IN scores[qid] + Total(scores, qids \ {qid})

(* Mutant: the mean over the loaded queries. *)
average_over_queries(total, scores) ==
    Some((2 * total + Len(QueryOrder)) \div (2 * Len(QueryOrder)))

(* Lines 657-661: round(total / len(scores), 5); None is the               *)
(* ZeroDivisionError of an empty scores.                                   *)
average(total, scores) ==
    LET n == Cardinality(DOMAIN scores)
    IN IF n = 0 THEN None ELSE Some((2 * total + n) \div (2 * n))

(* evaluate: accepted tells whether pytrec_eval takes the measure strings  *)
(* (it may reject those of an empty k_values), vals are the values it      *)
(* reports, one per scored query, for every measure and cutoff.            *)
evaluate(qrels, results, k_values, ignore_identical_ids, accepted, vals) ==
    LET after == IF ignore_identical_ids THEN remove_identical(results) ELSE results
        run == filtered_results(qrels, after)
        scores == [qid \in Scored(qrels, run) |-> vals[qid]]
        mean == average(Total(scores, DOMAIN scores), scores)
        cutoffs == {k_values[i] : i \in 1..Len(k_values)}
        metric == [k \in cutoffs |-> mean[1]]
    IN IF ~accepted
       THEN [results |-> after, run |-> run, scores |-> << >>,
             outcome |-> "EvaluatorError", report |-> None]
       ELSE IF cutoffs # {} /\ mean = None
       THEN [results |-> after, run |-> run, scores |-> scores,
             outcome |-> "ZeroDivisionError", report |-> None]
       ELSE [results |-> after, run |-> run, scores |-> scores,
             outcome |-> "ok",
             report |-> Some([ndcg |-> metric, map |-> metric,
                              recall |-> metric, precision |-> metric])]

(* The results a caller passes: a stored stage result, which evaluate then *)
(* changes in place, or a ranking of its own.                              *)
ResultsOf(source) ==
    IF source = "retrieve"
    THEN (IF retrieve_results = None THEN {} ELSE {retrieve_results[1]})
    ELSE IF source = "rerank"
    THEN (IF rerank_results = None THEN {} ELSE {rerank_results[1]})
    ELSE Rankings

Evaluate ==
    \E qrels \in Qrels, k_values \in KValues, ignore_identical_ids \in BOOLEAN,
       source \in {"retrieve", "rerank", "own"} :
    \E results \in ResultsOf(source) :
    \E accepted \in IF k_values = << >> THEN BOOLEAN ELSE {TRUE} :
    \E vals \in [IF accepted
                  THEN Scored(qrels, evaluate(qrels, results, k_values,
                                              ignore_identical_ids, FALSE, << >>).run)
                  ELSE {} -> ScoreVals] :
        LET ev == evaluate(qrels, results, k_values, ignore_identical_ids, accepted, vals) IN
        /\ retrieve_results' =
              IF source = "retrieve" THEN Some(ev.results) ELSE retrieve_results
        /\ rerank_results' =
              IF source = "rerank" THEN Some(ev.results) ELSE rerank_results
        /\ eobs' = [op |-> "evaluate", qrels |-> qrels, source |-> source,
                    results |-> results, k_values |-> k_values,
                    ignore_identical_ids |-> ignore_identical_ids,
                    after |-> ev.results, run |-> ev.run, scores |-> ev.scores,
                    outcome |-> ev.outcome, report |-> ev.report]
        /\ last' = [NoCall EXCEPT !.op = "evaluate", !.outcome = ev.outcome]
        /\ UNCHANGED <<loaded, generate_results, recent_stage, files, hvars>>

-----------------------------------------------------------------------------
OptRanking == {None} \cup {Some(r) : r \in Rankings}

OptAnswers == {None} \cup {Some(a) : a \in Answers}

Retrieve == \E isRetrieval \in BOOLEAN, ret \in OptRanking : retrieve(isRetrieval, ret)

Rerank ==
    \E isReranker \in BOOLEAN, results \in OptRanking, ret \in OptRanking :
        rerank(isReranker, results, ret)

Generate ==
    \E isGenerator \in BOOLEAN, results \in OptRanking, builder \in Builders,
       ret \in OptAnswers :
        generate(isGenerator, results, builder, ret)

(* Stage calls with a collaborator of the expected class that returns, and *)
(* no explicit results.                                                    *)
RetrieveOk == \E ret \in Rankings : retrieve(TRUE, Some(ret))

RerankOk == \E ret \in Rankings : rerank(TRUE, None, Some(ret))

GenerateOk == \E ret \in Answers : generate(TRUE, None, "default", Some(ret))

SaveResults ==
    \E top_k \in (-1)..MaxSaveTopK, output_dir \in {None, Some("out")} :
        save_results(top_k, output_dir)

Init == InitTask /\ InitHybrid /\ InitOutput

Next == Retrieve \/ Rerank \/ Generate

Spec == Init /\ [][Next]_vars

NextHybrid ==
    HybridCall \/ SkipQuery \/ LexicalStage \/ DenseStage \/ Fuse \/ HybridReturn

SpecHybrid == Init /\ [][NextHybrid]_vars

NextOutput == RetrieveOk \/ RerankOk \/ GenerateOk \/ SaveResults

SpecOutput == Init /\ [][NextOutput]_vars

NextEvaluate == RetrieveOk \/ RerankOk \/ Evaluate

SpecEvaluate == Init /\ [][NextEvaluate]_vars

NextKeywords == ExpandCall

SpecKeywords == Init /\ [][NextKeywords]_vars

-----------------------------------------------------------------------------
(* Properties of the staged pipeline.  In every step of Spec, last' is the *)
(* record of the call the step makes and the unprimed variables are the    *)
(* pipeline state the call started from.                                   *)

(* C1: generate called with no explicit results while both a retrieve      *)
(* result and a rerank result are stored hands the stored rerank result to *)
(* the message builder.                                                    *)
C1_GenerateUsesRerank ==
    (/\ last.op = "generate" /\ last.typed /\ ~last.explicit
     /\ retrieve_results # None /\ rerank_results # None)
    => (last.built /\ last.input = rerank_results)

(* C2: generate called with no explicit results while a retrieve result is *)
(* stored and no rerank result is stored does not fail for missing input   *)
(* and hands the stored retrieve result to the message builder.            *)
C2_GenerateFallsBackToRetrieve ==
    (/\ last.op = "generate" /\ last.typed /\ ~last.explicit
     /\ retrieve_results # None /\ rerank_results = None)
    => (/\ last.outcome # "AssertionError_NoInput"
        /\ last.built /\ last.input = retrieve_results)

(* C3: generate called with no explicit results while neither stage result *)
(* is stored fails with the missing-input error, never calls the generator *)
(* and leaves the stored generation result as it was.                      *)
C3_GenerateNoInput ==
    [][(/\ last'.op = "generate" /\ last'.typed /\ ~last'.explicit
        /\ retrieve_results = None /\ rerank_results = None)
       => (/\ last'.outcome = "AssertionError_NoInput"
           /\ ~last'.invoked /\ ~last'.built
           /\ generate_results' = generate_results)]_vars

C3_Witness ==
    /\ last.op = "generate" /\ last.typed /\ ~last.explicit
    /\ retrieve_results = None /\ rerank_results = None
    /\ last.outcome = "AssertionError_NoInput"
    /\ generate_results # None

(* C4: once a retrieve result is stored, a rerank call with a Reranker and *)
(* no explicit results hands the reranker exactly the stored retrieve      *)
(* result, and when the reranker returns, its output is the stored rerank  *)
(* result.                                                                 *)
C4_RerankConsumesRetrieve ==
    [][(/\ last'.op = "rerank" /\ last'.typed /\ ~last'.explicit
        /\ retrieve_results # None)
       => (/\ last'.invoked
           /\ last'.input = retrieve_results
           /\ last'.outcome \in {"ok", "CollaboratorError"}
           /\ (last'.outcome = "ok" => rerank_results' = last'.output))]_vars

C4_Witness ==
    /\ last.op = "rerank" /\ last.typed /\ ~last.explicit
    /\ last.outcome = "ok" /\ last.input = retrieve_results
    /\ rerank_results = last.output
    /\ rerank_results # retrieve_results

(* C5: a rerank call with no explicit results while no retrieve result is  *)
(* stored fails with the missing-input error, never calls the reranker and *)
(* leaves the stored rerank result as it was.                              *)
C5_RerankNoInput ==
    [][(/\ last'.op = "rerank" /\ last'.typed /\ ~last'.explicit
        /\ retrieve_results = None)
       => (/\ last'.outcome = "ValueError_NoInput"
           /\ ~last'.invoked
           /\ rerank_results' = rerank_results)]_vars

C5_Witness ==
    /\ last.op = "rerank" /\ last.typed /\ ~last.explicit
    /\ retrieve_results = None
    /\ last.outcome = "ValueError_NoInput"
    /\ rerank_results # None

(* C6: a stage call that fails, whatever the reason, leaves the stored     *)
(* retrieve, rerank and generation results exactly as they were.           *)
C6_FailedCallKeepsResults ==
    [][last'.outcome # "ok" => UNCHANGED stores]_vars

C6_Witness ==
    /\ last.outcome = "CollaboratorError"
    /\ retrieve_results # None /\ rerank_results # None /\ generate_results # None

(* C7: a stage call whose collaborator is not of the expected class fails  *)
(* with the type error and does nothing else: no stored result is read, no *)
(* message is built and the collaborator is not called, in any pipeline    *)
(* state.                                                                  *)
C7_TypeMismatchFirst ==
    (last.op # "none" /\ ~last.typed)
    => (/\ last.outcome = "TypeError"
        /\ ~last.resolved /\ ~last.built /\ ~last.invoked
        /\ last.input = None /\ last.messages = None)

C7_Witness ==
    /\ last.op = "generate" /\ ~last.typed /\ ~last.explicit
    /\ last.outcome = "TypeError"
    /\ retrieve_results = None /\ rerank_results = None

-----------------------------------------------------------------------------
(* Properties of hybrid_retrieve_rerank.  hobs describes the iteration of  *)
(* query hobs.q; once its entry is written, Out is that entry.             *)

Out == batch[hobs.q]

(* Both stages of the iteration ran and the entry of the query was written *)
(* from the fused rows (line 278).                                         *)
EntryMade == hobs.q \in DOMAIN batch /\ hobs.dense \in {"hybrid", "vector"}

RawLabels == {"_score", "_relevance_score"}

CandIds(found) ==
    IF found = None THEN {}
    ELSE {found[1].cands[i][1] : i \in 1..Len(found[1].cands)}

(* The doc ids of the rows of a stage that carry a score. *)
ScoredIds(found) ==
    IF found = None \/ found[1].label = "none" THEN {} ELSE CandIds(found)

(* The score of the first row of doc id d in a candidate list. *)
FirstScore(cands, d) ==
    cands[CHOOSE i \in 1..Len(cands) :
             /\ cands[i][1] = d
             /\ \A j \in 1..(i - 1) : cands[j][1] # d][2]

OutIds == {Out[j][1] : j \in 1..Len(Out)}

(* C8: when the full-text stage and the dense stage both succeed, with     *)
(* rows labelled '_score' or '_relevance_score', every doc id D that both  *)
(* return has exactly one entry in the output of the query, with the score *)
(* D has in the full-text list.                                            *)
C8_LexicalScoreWins ==
    (/\ EntryMade /\ hobs.lex = "ok"
     /\ hobs.lex_in[1].label \in RawLabels
     /\ hobs.dense_in[1].label \in RawLabels)
    => \A d \in CandIds(hobs.lex_in) \cap CandIds(hobs.dense_in) :
          /\ Cardinality({j \in 1..Len(Out) : Out[j][1] = d}) = 1
          /\ \A j \in 1..Len(Out) :
                Out[j][1] = d => Out[j][2] = FirstScore(hobs.lex_in[1].cands, d)

(* C9: when the full-text stage succeeds with a list that is not empty and *)
(* the dense stage succeeds, the doc ids of the output of the query are    *)
(* those of the full-text rows and of the dense rows that carry a score.   *)
C9_FusionKeepsAll ==
    (EntryMade /\ hobs.lex = "ok" /\ ~IsEmpty(retrieved_docs_1))
    => OutIds = ScoredIds(hobs.lex_in) \cup ScoredIds(hobs.dense_in)

(* C10: the output of every query has one entry per doc id and its scores  *)
(* never increase along the iteration order.                               *)
C10_OutputSortedUnique ==
    (hobs.q \in DOMAIN batch)
    => /\ \A i, j \in 1..Len(Out) : i # j => Out[i][1] # Out[j][1]
       /\ \A i \in 1..(Len(Out) - 1) : Out[i][2] >= Out[i + 1][2]

-----------------------------------------------------------------------------
(* The entries lines 268-279 can write for a full-text frame and the rows  *)
(* a dense search returned; the empty set when the rename or the sort      *)
(* raises.                                                                 *)
FusedEntries(docs_1, found) ==
    LET clean == dropna(combine(docs_1, Frame(found[1].label, found[1].cands)))
        rn == rename_score_column(clean, "score")
    IN IF rn.raised THEN {}
       ELSE {ToDict(s.rows, 1, << >>) : s \in sort_values(rn.df, "score")}

(* C11: when the hybrid search fails and the vector search succeeds, the   *)
(* iteration ends as an iteration does whose dense stage returned the rows *)
(* of the vector search directly, with the same full-text frame: it writes *)
(* one of the entries that iteration can write, and it raises only when    *)
(* that iteration raises.                                                  *)
C11_FallbackTransparent ==
    (hobs.dense = "vector" /\ hpc # "fuse")
    => IF hpc = "raised"
       THEN FusedEntries(retrieved_docs_1, hobs.dense_in) = {}
       ELSE Out \in FusedEntries(retrieved_docs_1, hobs.dense_in)

C11_Witness ==
    /\ EntryMade /\ hobs.dense = "vector"
    /\ hobs.lex = "ok" /\ ~IsEmpty(retrieved_docs_1)
    /\ Len(Out) >= 2

(* The step leaves the entries of the queries other than q as they are. *)
OthersKept(q) == \A x \in DOMAIN batch \ {q} : x \in DOMAIN batch' /\ batch'[x] = batch[x]

(* C12: when the hybrid search and the vector search of a query both fail, *)
(* the entry of the query is the empty mapping whatever the full-text      *)
(* stage returned, the call goes on with the next query without raising    *)
(* and the entries of the other queries are left as they are; the entry an *)
(* iteration writes is computed from the rows of its own query alone.      *)
C12_DenseFailureIsolated ==
    [][/\ (hpc = "dense" /\ hpc' # "dense" /\ hobs'.dense_in = None)
          => /\ hobs'.dense = "failed"
             /\ hobs.q \in DOMAIN batch' /\ batch'[hobs.q] = << >>
             /\ hpc' = "head" /\ hi' = hi + 1
             /\ OthersKept(hobs.q)
       /\ (hpc = "fuse" /\ hpc' = "head")
          => /\ hobs.q \in DOMAIN batch'
             /\ batch'[hobs.q] \in FusedEntries(retrieved_docs_1, hobs.dense_in)
             /\ hi' = hi + 1
             /\ OthersKept(hobs.q)]_vars

C12_Witness ==
    /\ hpc = "returned"
    /\ hobs.q = "q2" /\ hobs.dense = "failed"
    /\ hobs.lex = "ok" /\ ~IsEmpty(retrieved_docs_1)
    /\ batch["q2"] = << >>
    /\ "q1" \in DOMAIN batch /\ batch["q1"] # << >>

(* The rows of a stage carry none of the score columns the rename knows. *)
Unscored(found) == found # None /\ found[1].label = "none" /\ found[1].cands # << >>

(* C13: rows that carry none of the score columns '_score',                *)
(* '_relevance_score' and 'score' are left out of the fusion and never     *)
(* make the call raise: the iteration writes an entry, made of the doc ids *)
(* of the rows that carry a score.                                         *)
C13_UnscoredRowsDropped ==
    (/\ hobs.dense \in {"hybrid", "vector"} /\ hpc # "fuse"
     /\ (Unscored(hobs.lex_in) \/ Unscored(hobs.dense_in)))
    => /\ hpc # "raised"
       /\ hobs.q \in DOMAIN batch
       /\ OutIds \subseteq ScoredIds(hobs.lex_in) \cup ScoredIds(hobs.dense_in)

LexicalFailures == {"expansion_failed", "search_failed", "rename_failed"}

(* C14: when the keyword expansion, the full-text search or the rename of  *)
(* its score column fails, the full-text frame the fusion reads is empty,  *)
(* and the iteration ends as the dense rows alone make it end.             *)
C14_LexicalFailureEmptyList ==
    (hobs.lex \in LexicalFailures)
    => /\ IsEmpty(retrieved_docs_1)
       /\ (hobs.dense \in {"hybrid", "vector"} /\ hpc # "fuse")
          => IF hpc = "raised"
             THEN FusedEntries(EmptyFrame, hobs.dense_in) = {}
             ELSE Out \in FusedEntries(EmptyFrame, hobs.dense_in)

(* The call wrote entries for the ids of the subset only and, when the     *)
(* subset holds no id of a loaded query, wrote no entry and called neither *)
(* the keyword expansion nor a search.                                     *)
SubsetOnly(ids) ==
    /\ DOMAIN batch \subseteq ids
    /\ (ids \cap DOMAIN Queries = {})
       => (DOMAIN batch = {} /\ hobs = NoIteration /\ kw_cache = << >>)

(* C15, as claimed: for every query subset passed, the empty one included, *)
(* the result has entries for ids of the subset only, and a subset that    *)
(* holds no id of a loaded query gives an empty result without a call of   *)
(* the keyword expansion or of a search.                                   *)
C15_SubsetFilter ==
    (hpc # "idle" /\ hargs.query_ids # None) => SubsetOnly(hargs.query_ids[1])

(* C15, amended: the same for every subset that is not empty. *)
C15_NonEmptySubsetFilter ==
    (hpc # "idle" /\ hargs.query_ids # None /\ hargs.query_ids[1] # {})
    => SubsetOnly(hargs.query_ids[1])

C15_Witness ==
    /\ hpc = "returned"
    /\ hargs.query_ids = Some({"q2"})
    /\ DOMAIN batch = {"q2"} /\ batch["q2"] # << >>

-----------------------------------------------------------------------------
(* C16: once a call of keyword_extraction_expansion for a query text has   *)
(* returned, every later call for that text returns the list that call     *)
(* returned, without a call of the chat completion and without raising, so *)
(* the number of chat completions made for the text no longer changes.     *)
C16_CacheHit ==
    [][\A t \in QueryTexts :
         (kobs.first[t] # None)
         => /\ kobs'.calls[t] = kobs.calls[t]
            /\ kobs'.first[t] = kobs.first[t]
            /\ (kobs'.query = t)
               => /\ ~kobs'.invoked /\ ~kobs'.raised
                  /\ kobs'.keywords = kobs.first[t][1]]_vars

C16_Witness ==
    /\ kobs.query = "text1" /\ ~kobs.invoked /\ ~kobs.raised
    /\ kobs.calls["text1"] = 1
    /\ kobs.keywords = kobs.first["text1"][1]
    /\ kobs.first["text2"] # None /\ kobs.first["text2"] # kobs.first["text1"]

-----------------------------------------------------------------------------
(* save_results wrote into output_dir in the step that led to this state.  *)
Saved == last.op = "save_results" /\ eobs.output_dir # None

(* C17, as claimed: when retrieve or rerank has stored a ranking,          *)
(* save_results with an output directory writes the ranking of the stage   *)
(* that stored its result last.                                            *)
C17_SavesMostRecentStage ==
    (Saved /\ recent_stage # "none")
    => LET ranking == IF recent_stage = "rerank" THEN rerank_results[1]
                      ELSE retrieve_results[1]
       IN /\ files.results = Some(ResultLines(ranking, Keys(ranking), 1))
          /\ files.csv = Some(<< <<"query_id", "corpus_id">> >>
                              \o CsvRows(ranking, Keys(ranking), 1, eobs.top_k))

(* C17, amended: save_results with an output directory writes the stored   *)
(* rerank result when there is one, whichever stage ran last, and the      *)
(* stored retrieve result otherwise.                                       *)
C17_SavesRerankFirst ==
    (Saved /\ recent_stage # "none")
    => LET ranking == IF rerank_results # None THEN rerank_results[1]
                      ELSE retrieve_results[1]
       IN /\ files.results = Some(ResultLines(ranking, Keys(ranking), 1))
          /\ files.csv = Some(<< <<"query_id", "corpus_id">> >>
                              \o CsvRows(ranking, Keys(ranking), 1, eobs.top_k))

C17_Witness ==
    /\ Saved /\ recent_stage = "retrieve"
    /\ retrieve_results = Some(RankC) /\ rerank_results = Some(RankA)
    /\ files.results = Some(ResultLines(RankA, Keys(RankA), 1))

-----------------------------------------------------------------------------
(* evaluate was called in the step that led to this state. *)
Evaluated == last.op = "evaluate"

(* C18: evaluate with ignore_identical_ids=True that returns leaves its    *)
(* results argument with the entries it had, so a stored retrieve or       *)
(* rerank result passed to it is the same after the call.                  *)
C18_EvaluateKeepsResults ==
    (Evaluated /\ eobs.ignore_identical_ids /\ eobs.outcome = "ok")
    => /\ eobs.after = eobs.results
       /\ (eobs.source = "retrieve") => (retrieve_results = Some(eobs.results))
       /\ (eobs.source = "rerank") => (rerank_results = Some(eobs.results))

(* C19: when no query of results has judgements in qrels, evaluate raises  *)
(* the error of the empty evaluation set (in the code, the                 *)
(* ZeroDivisionError of the mean) and returns no report, for every         *)
(* k_values, the empty list included.                                      *)
C19_EmptyEvaluationFails ==
    (Evaluated /\ DOMAIN eobs.results \cap DOMAIN eobs.qrels = {})
    => (eobs.outcome = "ZeroDivisionError" /\ eobs.report = None)

(* C20: a query of results without judgements in qrels is not scored, and  *)
(* each reported value is the sum of the values of the scored queries      *)
(* divided by their number (rounded), the scored queries being those in    *)
(* both qrels and results.                                                 *)
C20_MeanOverScored ==
    (Evaluated /\ eobs.outcome = "ok" /\ eobs.k_values # << >>)
    => LET scored == DOMAIN eobs.results \cap DOMAIN eobs.qrels
           n == Cardinality(scored)
           total == Total(eobs.scores, scored)
       IN /\ DOMAIN eobs.run = scored
          /\ DOMAIN eobs.scores = scored
          /\ \A name \in {"ndcg", "map", "recall", "precision"} :
             \A i \in 1..Len(eobs.k_values) :
                LET r == eobs.report[1][name][eobs.k_values[i]]
                IN 2 * n * r >= 2 * total - n /\ 2 * n * r <= 2 * total + n

C20_Witness ==
    /\ Evaluated /\ eobs.outcome = "ok"
    /\ eobs.results = RankA /\ eobs.qrels = QrelsOne
    /\ eobs.k_values = <<1, 2>>
    /\ eobs.scores["q1"] = Unit
    /\ eobs.report[1]["ndcg"][1] = Unit

-----------------------------------------------------------------------------
(* The doc ids of the rows of query qid in the tabular file, in file order. *)
CsvDocs(qid) ==
    LET of_query(row) == row[1] = qid
        rows == SelectSeq(Tail(files.csv[1]), of_query)
    IN [j \in 1..Len(rows) |-> rows[j][2]]

(* Position and score of doc id d in an ordered mapping. *)
PosIn(items, d) == CHOOSE i \in 1..Len(items) : items[i][1] = d

ScoreIn(items, d) == items[PosIn(items, d)][2]

(* d comes before e in the order of the file: higher score first, and for  *)
(* equal scores the one stored first.                                      *)
Before(items, d, e) ==
    \/ ScoreIn(items, d) > ScoreIn(items, e)
    \/ ScoreIn(items, d) = ScoreIn(items, e) /\ PosIn(items, d) < PosIn(items, e)

(* C21: for a top_k that is not negative, save_results writes to the       *)
(* tabular file the header and, for each query of the selected ranking,    *)
(* min(top_k, number of candidates) doc ids of the query: those of the     *)
(* highest scores, by descending score, candidates of equal score in the   *)
(* order of the stored mapping.                                            *)
C21_CsvTopK ==
    (Saved /\ eobs.final # None /\ eobs.top_k >= 0)
    => LET ranking == eobs.final[1] IN
       /\ Head(files.csv[1]) = <<"query_id", "corpus_id">>
       /\ \A j \in 2..Len(files.csv[1]) : files.csv[1][j][1] \in DOMAIN ranking
       /\ \A qid \in DOMAIN ranking :
             LET items == ranking[qid]
                 docs == CsvDocs(qid)
                 listed == {docs[j] : j \in 1..Len(docs)}
                 all == {items[j][1] : j \in 1..Len(items)}
             IN /\ Len(docs) = Min(eobs.top_k, Len(items))
                /\ listed \subseteq all
                /\ \A i, j \in 1..Len(docs) : i < j => Before(items, docs[i], docs[j])
                /\ \A d \in listed : \A e \in all \ listed : Before(items, d, e)

C21_Witness ==
    /\ Saved /\ eobs.final = Some(RankB) /\ eobs.top_k = 1
    /\ files.csv = Some(<< <<"query_id", "corpus_id">>, <<"q1", "d2">> >>)

-----------------------------------------------------------------------------
DocsOf(items) == {items[j][1] : j \in 1..Len(items)}

(* C22: with ignore_identical_ids=True, the run handed to the evaluator    *)
(* holds, for each of its queries, the documents of the query in results   *)
(* other than the document whose id is the query id, and never that one.   *)
C22_SelfMatchNotScored ==
    (Evaluated /\ eobs.ignore_identical_ids)
    => \A qid \in DOMAIN eobs.run :
          /\ qid \notin DocsOf(eobs.run[qid])
          /\ DocsOf(eobs.run[qid]) = DocsOf(eobs.results[qid]) \ {qid}

C22_Witness ==
    /\ Evaluated /\ eobs.ignore_identical_ids /\ eobs.outcome = "ok"
    /\ eobs.results = RankC /\ eobs.k_values # << >>
    /\ eobs.run = [q1 |-> << <<"d1", 1>> >>]

-----------------------------------------------------------------------------
(* C23: a call of hybrid_retrieve_rerank with a top_k that is not positive *)
(* raises before the keyword expansion or a search is called, and returns  *)
(* no result.                                                              *)
C23_NonPositiveTopKRejected ==
    (hpc # "idle" /\ hargs.top_k <= 0)
    => /\ hpc # "returned"
       /\ hobs = NoIteration
       /\ kobs = NoExpansion

-----------------------------------------------------------------------------
(* C24: a stage call that returns stores the output of its collaborator as *)
(* the result of its own stage, whole, and leaves the results of the two   *)
(* other stages as they were, in every pipeline state and on every re-run. *)
C24_SuccessReplacesOwnResult ==
    [][(last'.outcome = "ok")
       => /\ (last'.op = "retrieve")
             => /\ retrieve_results' = last'.output
                /\ UNCHANGED <<rerank_results, generate_results>>
          /\ (last'.op = "rerank")
             => /\ rerank_results' = last'.output
                /\ UNCHANGED <<retrieve_results, generate_results>>
          /\ (last'.op = "generate")
             => /\ generate_results' = last'.output
                /\ UNCHANGED <<retrieve_results, rerank_results>>]_vars

C24_Witness ==
    /\ last.op = "retrieve" /\ last.outcome = "ok"
    /\ retrieve_results = Some(RankB) /\ last.output = Some(RankB)
    /\ rerank_results = Some(RankA) /\ generate_results # None

-----------------------------------------------------------------------------
(* The query ids of a ranking are loaded queries and its doc ids are in    *)
(* the corpus.                                                             *)
WellFormed(results) ==
    /\ DOMAIN results \subseteq DOMAIN Queries
    /\ \A qid \in DOMAIN results : DocsOf(results[qid]) \subseteq Corpus

(* C25: generate with the default message builder, on a well-formed input, *)
(* builds one prompt per query id of the input and calls the generator     *)
(* with them, also when the candidate mapping of a query is empty.         *)
C25_DefaultBuilderTotal ==
    (/\ last.op = "generate" /\ last.built /\ last.builder = "default"
     /\ WellFormed(last.input[1]))
    => /\ last.outcome \in {"ok", "CollaboratorError"}
       /\ last.invoked
       /\ [j \in 1..Len(last.messages[1]) |-> last.messages[1][j][1]]
            = Keys(last.input[1])

-----------------------------------------------------------------------------
(* C26: while every call of keyword_extraction_expansion for a query text  *)
(* has raised, nothing is stored for the text: the next call for it calls  *)
(* the chat completion again, a call that raises again stores nothing, and *)
(* the list of a call that returns is the one stored and returned.         *)
C26_FailureNotCached ==
    [][\A t \in QueryTexts :
         (/\ kobs.calls[t] > 0 /\ kobs.first[t] = None
          /\ kobs'.query = t /\ kobs' # kobs)
         => /\ ~Cached(kw_cache, t)
            /\ kobs'.invoked
            /\ kobs'.raised => ~Cached(kw_cache', t)
            /\ ~kobs'.raised
               => /\ Cached(kw_cache', t)
                  /\ kw_cache'[CacheIndex(kw_cache', t)][2] = kobs'.keywords
                  /\ kobs'.first[t] = Some(kobs'.keywords)]_vars

C26_Witness ==
    /\ kobs.query = "text1" /\ kobs.invoked /\ ~kobs.raised
    /\ kobs.calls["text1"] = 2
    /\ kobs.first["text1"] = Some(kobs.keywords)
    /\ Cached(kw_cache, "text1")

====
